---------------------------- MODULE Spec2Model ----------------------------
(***************************************************************************)
(* A model of the inlist loaders of util_tools/inlist_handler:             *)
(*   InlistHandler      (inlist_handler.py): the custom key = value format *)
(*                      read through a configured shlex lexer, the type    *)
(*                      inference _typer, and the defaults overlay;        *)
(*   TomlInlistHandler  (toml_inlist_handler.py): the TOML loader with its *)
(*                      empty-table normalisation.                         *)
(* Texts (file contents, tokens, paths) are sequences of one-character     *)
(* strings.                                                                *)
(***************************************************************************)
EXTENDS Integers, Sequences, FiniteSets, TLC

(***************************************************************************)
(* Bounds of the model.                                                    *)
(***************************************************************************)
\* the longest token handed to _typer, counted in pieces of TokenPieces
MaxPieces == 4
\* the number of loads a caller makes in one run
MaxCalls == 3
\* the longest inlist text of the parser's inputs, counted in pieces of TextPieces
MaxTextPieces == 3
\* the longest path of the resolver's inputs, in characters
MaxPathLen == 6
\* the deepest nesting of the TOML parse trees
MaxTomlDepth == 2

(***************************************************************************)
(* Characters and texts.                                                   *)
(***************************************************************************)
Digits == {"0", "1", "2", "3", "4", "5", "6", "7", "8", "9"}

Letters ==
    {"a", "b", "c", "d", "e", "f", "g", "h", "i", "j", "k", "l", "m",
     "n", "o", "p", "q", "r", "s", "t", "u", "v", "w", "x", "y", "z",
     "A", "B", "C", "D", "E", "F", "G", "H", "I", "J", "K", "L", "M",
     "N", "O", "P", "Q", "R", "S", "T", "U", "V", "W", "X", "Y", "Z"}

\* the i-th character of s, "" past its end
Char(s, i) == IF i >= 1 /\ i <= Len(s) THEN s[i] ELSE ""

\* s[i .. j-1]
Slice(s, i, j) == SubSeq(s, i, j - 1)

\* the concatenation of a sequence of texts
RECURSIVE Flatten(_)
Flatten(ss) == IF ss = <<>> THEN <<>> ELSE Head(ss) \o Flatten(Tail(ss))

\* pat occurs in s at position i
OccursAt(pat, s, i) ==
    /\ i + Len(pat) - 1 <= Len(s)
    /\ \A k \in 1..Len(pat) : s[i + k - 1] = pat[k]

\* Python's `pat in s` on strings
Contains(s, pat) == \E i \in 1..(Len(s) + 1) : OccursAt(pat, s, i)

\* Python's s.strip(ch): every leading and every trailing ch is removed
RECURSIVE LStrip(_, _)
LStrip(s, ch) ==
    IF s # <<>> /\ Head(s) = ch THEN LStrip(Tail(s), ch) ELSE s

RECURSIVE RStrip(_, _)
RStrip(s, ch) ==
    IF s # <<>> /\ s[Len(s)] = ch THEN RStrip(SubSeq(s, 1, Len(s) - 1), ch)
    ELSE s

Strip(s, ch) == RStrip(LStrip(s, ch), ch)

\* the end (exclusive) of the run of characters of class cls that starts at i
RECURSIVE RunEnd(_, _, _)
RunEnd(s, i, cls) == IF Char(s, i) \in cls THEN RunEnd(s, i + 1, cls) ELSE i

DigitVal(c) ==
    CASE c = "0" -> 0 [] c = "1" -> 1 [] c = "2" -> 2 [] c = "3" -> 3
      [] c = "4" -> 4 [] c = "5" -> 5 [] c = "6" -> 6 [] c = "7" -> 7
      [] c = "8" -> 8 [] c = "9" -> 9

\* the number written by a sequence of decimal digits
RECURSIVE DigitsValue(_)
DigitsValue(ds) ==
    IF ds = <<>> THEN 0
    ELSE 10 * DigitsValue(SubSeq(ds, 1, Len(ds) - 1))
         + DigitVal(ds[Len(ds)])

(***************************************************************************)
(* Typed values.  One record shape for every value, so that any two values *)
(* can be compared: t is the Python type, n the integer (or the decimal    *)
(* mantissa of a float), e the decimal exponent of a float, s the text of  *)
(* a str, items the elements of a list or tuple, d the entries of a dict    *)
(* (a function from keys, which are texts, to values).                     *)
(***************************************************************************)
Val(t, n, e, s, items) ==
    [t |-> t, n |-> n, e |-> e, s |-> s, items |-> items, d |-> <<>>]

VInt(n) == Val("int", n, 0, <<>>, <<>>)
VStr(s) == Val("str", 0, 0, s, <<>>)
VBool(b) == Val("bool", IF b THEN 1 ELSE 0, 0, <<>>, <<>>)
VNone == Val("NoneType", 0, 0, <<>>, <<>>)
VEllipsis == Val("ellipsis", 0, 0, <<>>, <<>>)
VList(items) == Val("list", 0, 0, <<>>, items)
VTuple(items) == Val("tuple", 0, 0, <<>>, items)
VDict(d) == [Val("dict", 0, 0, <<>>, <<>>) EXCEPT !.d = d]
\* a syntax tree node that is no literal (a name, a call, a subscript, ...)
VBad == Val("malformed", 0, 0, <<>>, <<>>)

\* a float m * 10^e, normalised so that equal numbers are equal records
RECURSIVE VFloat(_, _)
VFloat(m, e) ==
    IF m = 0 THEN Val("float", 0, 0, <<>>, <<>>)
    ELSE IF m % 10 = 0 THEN VFloat(m \div 10, e + 1)
    ELSE Val("float", m, e, <<>>, <<>>)

RECURSIVE HasBad(_)
HasBad(v) ==
    \/ v.t = "malformed"
    \/ \E k \in 1..Len(v.items) : HasBad(v.items[k])

(***************************************************************************)
(* ast.literal_eval and int, the two conversions _typer calls.  The        *)
(* grammar is Python's, for texts over digits, letters, quotes and the     *)
(* characters . , - ( ) [ ] (no whitespace outside string literals, no     *)
(* backslash, no underscore, no string prefix, no imaginary suffix): the   *)
(* texts the lexer's word characters and the pieces of the model produce.  *)
(* A parse yields [st, v, i, plain]: st "ok" or "syn" (a SyntaxError), v   *)
(* the value (VBad where a node is no literal), i the position after it,   *)
(* plain whether the node is a bare numeric constant.                      *)
(***************************************************************************)
IdStart == Letters \cup {"_"}
IdChars == IdStart \cup Digits
Quotes == {"'", "\""}

PRes(st, v, i, plain) == [st |-> st, v |-> v, i |-> i, plain |-> plain]
PSyn == PRes("syn", VBad, 0, FALSE)

\* a numeric literal at i: decimal integer, point float, exponent float
LexNumber(s, i) ==
    LET j == RunEnd(s, i, Digits)                      \* end of the integer part
        hasPoint == Char(s, j) = "."
        k == IF hasPoint THEN RunEnd(s, j + 1, Digits) ELSE j
        signed == Char(s, k) \in {"e", "E"} /\ Char(s, k + 1) \in {"+", "-"}
        p == IF signed THEN k + 2 ELSE k + 1           \* first exponent digit
        hasExp == Char(s, k) \in {"e", "E"} /\ Char(s, p) \in Digits
        m == IF hasExp THEN RunEnd(s, p, Digits) ELSE k
        intDigits == Slice(s, i, j)
        fracDigits == IF hasPoint THEN Slice(s, j + 1, k) ELSE <<>>
        expAbs == IF hasExp THEN DigitsValue(Slice(s, p, m)) ELSE 0
        exp == IF signed /\ Char(s, k + 1) = "-" THEN 0 - expAbs ELSE expAbs
        allZero == \A x \in 1..Len(intDigits) : intDigits[x] = "0"
    IN  IF intDigits = <<>> /\ fracDigits = <<>> THEN PSyn
        ELSE IF Char(s, m) \in IdChars THEN PSyn       \* invalid decimal literal
        ELSE IF hasPoint \/ hasExp
             THEN PRes("ok",
                       VFloat(DigitsValue(intDigits \o fracDigits),
                              exp - Len(fracDigits)),
                       m, TRUE)
        ELSE IF Len(intDigits) > 1 /\ intDigits[1] = "0" /\ ~allZero
             THEN PSyn                                 \* leading zeros
        ELSE PRes("ok", VInt(DigitsValue(intDigits)), m, TRUE)

\* the position of the quote closing a one-line string opened before i; 0 if none
RECURSIVE CloseQuote(_, _, _)
CloseQuote(s, i, q) ==
    IF i > Len(s) \/ s[i] = "\n" THEN 0
    ELSE IF s[i] = q THEN i
    ELSE CloseQuote(s, i + 1, q)

\* the position of the three quotes closing a triple-quoted string; 0 if none
RECURSIVE CloseTriple(_, _, _)
CloseTriple(s, i, q) ==
    IF i + 2 > Len(s) THEN 0
    ELSE IF OccursAt(<<q, q, q>>, s, i) THEN i
    ELSE CloseTriple(s, i + 1, q)

\* one string literal at i
LexString(s, i) ==
    LET q == s[i]
    IN  IF OccursAt(<<q, q, q>>, s, i)
        THEN LET c == CloseTriple(s, i + 3, q)
             IN  IF c = 0 THEN PSyn
                 ELSE PRes("ok", VStr(Slice(s, i + 3, c)), c + 3, FALSE)
        ELSE LET c == CloseQuote(s, i + 1, q)
             IN  IF c = 0 THEN PSyn
                 ELSE PRes("ok", VStr(Slice(s, i + 1, c)), c + 1, FALSE)

\* adjacent string literals are concatenated
RECURSIVE LexStrings(_, _)
LexStrings(s, i) ==
    LET a == LexString(s, i)
    IN  IF a.st = "syn" \/ Char(s, a.i) \notin Quotes THEN a
        ELSE LET b == LexStrings(s, a.i)
             IN  IF b.st = "syn" THEN PSyn
                 ELSE PRes("ok", VStr(a.v.s \o b.v.s), b.i, FALSE)

LexName(s, i) ==
    LET j == RunEnd(s, i, IdChars)
        name == Slice(s, i, j)
    IN  PRes("ok",
             CASE name = <<"T", "r", "u", "e">> -> VBool(TRUE)
               [] name = <<"F", "a", "l", "s", "e">> -> VBool(FALSE)
               [] name = <<"N", "o", "n", "e">> -> VNone
               [] OTHER -> VBad,
             j, FALSE)

\* The parser, by recursive descent.  Parse(nt, s, i, close) reads at i one
\* phrase of the kind nt:
\*   "items"     expression ("," expression)* [","] up to the character
\*               close (close = "": up to the end of the text); v is the
\*               tuple of the items, plain says whether a comma was seen;
\*   "arith"     a sum or difference: a literal only with a complex right
\*               operand, which these texts cannot write;
\*   "unary"     a signed phrase: a sign applies to a bare numeric constant;
\*   "primary"   an atom and its trailers;
\*   "trailers"  calls, subscripts and attribute references after an atom:
\*               valid syntax, but no literal;
\*   "atom"      a number, strings, a name, ..., ( ), [ ].
RECURSIVE Parse(_, _, _, _)
Parse(nt, s, i, close) ==
    LET c == Char(s, i)
    IN  CASE nt = "items" ->
             LET a == Parse("arith", s, i, "")
             IN  IF a.st = "syn" THEN PSyn
                 ELSE IF Char(s, a.i) = close
                      THEN PRes("ok", VTuple(<<a.v>>), a.i + 1, FALSE)
                 ELSE IF Char(s, a.i) # "," THEN PSyn
                 ELSE IF Char(s, a.i + 1) = close
                      THEN PRes("ok", VTuple(<<a.v>>), a.i + 2, TRUE)
                 ELSE LET r == Parse("items", s, a.i + 1, close)
                      IN  IF r.st = "syn" THEN PSyn
                          ELSE PRes("ok", VTuple(<<a.v>> \o r.v.items), r.i, TRUE)
          [] nt = "arith" ->
             LET a == Parse("unary", s, i, "")
             IN  IF a.st = "syn" THEN PSyn
                 ELSE IF Char(s, a.i) \in {"-", "+"}
                 THEN LET r == Parse("arith", s, a.i + 1, "")
                      IN  IF r.st = "syn" THEN PSyn
                          ELSE PRes("ok", VBad, r.i, FALSE)
                 ELSE a
          [] nt = "unary" ->
             IF c \in {"-", "+"}
             THEN LET r == Parse("unary", s, i + 1, "")
                  IN  IF r.st = "syn" THEN PSyn
                      ELSE IF ~r.plain THEN PRes("ok", VBad, r.i, FALSE)
                      ELSE IF c = "+" THEN PRes("ok", r.v, r.i, FALSE)
                      ELSE PRes("ok", [r.v EXCEPT !.n = 0 - r.v.n], r.i, FALSE)
             ELSE Parse("primary", s, i, "")
          [] nt = "primary" ->
             LET a == Parse("atom", s, i, "")
             IN  IF a.st = "syn" THEN PSyn
                 ELSE LET t == Parse("trailers", s, a.i, "")
                      IN  IF t.st = "syn" THEN PSyn
                          ELSE IF t.i = a.i THEN a
                          ELSE PRes("ok", VBad, t.i, FALSE)
          [] nt = "trailers" ->
             IF c = "(" /\ Char(s, i + 1) = ")"
             THEN Parse("trailers", s, i + 2, "")
             ELSE IF c = "(" \/ c = "["
             THEN LET r == Parse("items", s, i + 1, IF c = "(" THEN ")" ELSE "]")
                  IN  IF r.st = "syn" THEN PSyn
                      ELSE Parse("trailers", s, r.i, "")
             ELSE IF c = "." /\ Char(s, i + 1) \in IdStart
             THEN Parse("trailers", s, RunEnd(s, i + 1, IdChars), "")
             ELSE PRes("ok", VBad, i, FALSE)
          [] nt = "atom" ->
             IF c \in Digits \/ (c = "." /\ Char(s, i + 1) \in Digits)
             THEN LexNumber(s, i)
             ELSE IF OccursAt(<<".", ".", ".">>, s, i)
             THEN PRes("ok", VEllipsis, i + 3, FALSE)
             ELSE IF c \in Quotes THEN LexStrings(s, i)
             ELSE IF c \in IdStart THEN LexName(s, i)
             ELSE IF c = "(" /\ Char(s, i + 1) = ")"
             THEN PRes("ok", VTuple(<<>>), i + 2, FALSE)
             ELSE IF c = "[" /\ Char(s, i + 1) = "]"
             THEN PRes("ok", VList(<<>>), i + 2, FALSE)
             ELSE IF c = "(" \/ c = "["
             THEN LET r == Parse("items", s, i + 1, IF c = "(" THEN ")" ELSE "]")
                      one == r.v.items[1]
                  IN  IF r.st = "syn" THEN PSyn
                      ELSE IF c = "[" THEN PRes("ok", VList(r.v.items), r.i, FALSE)
                      ELSE IF r.plain THEN PRes("ok", r.v, r.i, FALSE)
                      \* one expression in parentheses is that expression
                      ELSE PRes("ok", one, r.i,
                                one.t \in {"int", "float"}
                                /\ Char(s, i + 1) \in Digits \cup {".", "("})
             ELSE PSyn

\* the outcome of a conversion: exc the exception raised ("none": returned)
Returned(v) == [exc |-> "none", val |-> v]
Raised(exc) == [exc |-> exc, val |-> VNone]

\* ast.literal_eval(s): parse, then convert the tree; a node that is no
\* literal raises ValueError
ConvertNode(v) == IF HasBad(v) THEN Raised("ValueError") ELSE Returned(v)

ConvertTree(r) ==
    IF r.st = "syn" THEN Raised("SyntaxError")
    ELSE ConvertNode(IF r.plain THEN r.v ELSE r.v.items[1])

literal_eval(s) ==
    ConvertTree(IF s = <<>> THEN PSyn ELSE Parse("items", s, 1, ""))

\* int(s) of a text without whitespace: an optional sign and decimal digits
int(s) ==
    LET signed == Char(s, 1) \in {"-", "+"}
        ds == IF signed THEN Tail(s) ELSE s
    IN  IF ds = <<>> \/ \E k \in 1..Len(ds) : ds[k] \notin Digits
        THEN Raised("ValueError")
        ELSE IF Char(s, 1) = "-" THEN Returned(VInt(0 - DigitsValue(ds)))
        ELSE Returned(VInt(DigitsValue(ds)))

(***************************************************************************)
(* InlistHandler: the checks of the type inference and _typer.             *)
(***************************************************************************)
\* _multi_check_method: any (or all) of check_values occur in value_string
_multi_check_method(value_string, check_values, any_check, all_check) ==
    IF any_check
    THEN \E _check_value \in check_values : Contains(value_string, _check_value)
    ELSE IF all_check
    THEN \A _check_value \in check_values : Contains(value_string, _check_value)
    ELSE FALSE  \* sys.exit(): no check of the class leaves both flags unset

string_check(value_string) ==
    _multi_check_method(value_string, {<<"'">>, <<"\"">>}, TRUE, FALSE)

bool_check(value_string) ==
    _multi_check_method(value_string,
                        {<<"F", "a", "l", "s", "e">>, <<"F", "A", "L", "S", "E">>,
                         <<"T", "r", "u", "e">>, <<"T", "R", "U", "E">>},
                        TRUE, FALSE)

bool_false_check(value_string) ==
    _multi_check_method(value_string,
                        {<<"F", "a", "l", "s", "e">>, <<"F", "A", "L", "S", "E">>},
                        TRUE, FALSE)

list_check(value_string) ==
    _multi_check_method(value_string, {<<"[">>, <<"]">>}, FALSE, TRUE)

tuple_check(value_string) ==
    _multi_check_method(value_string, {<<"(">>, <<")">>}, FALSE, TRUE)

none_check(value_string) ==
    _multi_check_method(value_string, {<<"N", "o", "n", "e">>}, FALSE, TRUE)

float_check(value_string) ==
    _multi_check_method(value_string, {<<".">>}, FALSE, TRUE)

\* compiled_float_regex.match: \d+[eE]-*\d+ matches a prefix of value_string
compiled_float_regex(value_string) ==
    LET j == RunEnd(value_string, 1, Digits)
        k == RunEnd(value_string, j + 1, {"-"})
    IN  /\ j > 1
        /\ Char(value_string, j) \in {"e", "E"}
        /\ Char(value_string, k) \in Digits

\* the result of _typer: the rule that decided, and the outcome
Typed(rule, outcome) == [rule |-> rule, exc |-> outcome.exc, val |-> outcome.val]

\* a variant of _typer that tests for boolean text before it tests for quotes
_typer_boolean_first(value_string) ==
    IF bool_check(value_string)
    THEN IF bool_false_check(value_string)
         THEN Typed("boolean", Returned(VBool(FALSE)))
         ELSE Typed("boolean", Returned(VBool(TRUE)))
    ELSE IF string_check(value_string)
    THEN IF list_check(value_string)
         THEN Typed("quoted_list", literal_eval(value_string))
         ELSE Typed("string",
                    Returned(VStr(Strip(Strip(value_string, "\""), "'"))))
    ELSE IF none_check(value_string)
    THEN Typed("null", Returned(VNone))
    ELSE IF list_check(value_string)
    THEN Typed("list", literal_eval(value_string))
    ELSE IF tuple_check(value_string)
    THEN Typed("tuple", literal_eval(value_string))
    ELSE IF float_check(value_string) \/ compiled_float_regex(value_string)
    THEN Typed("float", literal_eval(value_string))
    ELSE Typed("integer", int(value_string))

_typer(value_string) ==
    IF string_check(value_string)
    THEN IF list_check(value_string)
         THEN Typed("quoted_list", literal_eval(value_string))
         ELSE Typed("string",
                    Returned(VStr(Strip(Strip(value_string, "\""), "'"))))
    ELSE IF bool_check(value_string)
    THEN IF bool_false_check(value_string)
         THEN Typed("boolean", Returned(VBool(FALSE)))
         ELSE Typed("boolean", Returned(VBool(TRUE)))
    ELSE IF none_check(value_string)
    THEN Typed("null", Returned(VNone))
    ELSE IF list_check(value_string)
    THEN Typed("list", literal_eval(value_string))
    ELSE IF tuple_check(value_string)
    THEN Typed("tuple", literal_eval(value_string))
    ELSE IF float_check(value_string) \/ compiled_float_regex(value_string)
    THEN Typed("float", literal_eval(value_string))
    ELSE Typed("integer", int(value_string))

(***************************************************************************)
(* The lexer of _parse_inlist: shlex.shlex in its default (non-POSIX)      *)
(* mode, over the lines of the file joined by "\n", with the commenters,   *)
(* word characters and quotes the code sets.  Between two tokens the lexer *)
(* is in its whitespace state, so its state is the text still to be read.  *)
(***************************************************************************)
commenters == {"%"}
wordchars == Letters \cup Digits \cup {"_"} \cup {".", "-", "[", "]", ",", "(", ")"}
quotes == {"'", "\""}
whitespace == {" ", "\t", "\r", "\n"}

\* open() in text mode: "\r\n" and "\r" are read as "\n"
RECURSIVE UniversalNewlines(_)
UniversalNewlines(s) ==
    IF s = <<>> THEN <<>>
    ELSE IF Head(s) = "\r"
    THEN <<"\n">> \o UniversalNewlines(IF Char(s, 2) = "\n" THEN Tail(Tail(s))
                                      ELSE Tail(s))
    ELSE <<Head(s)>> \o UniversalNewlines(Tail(s))

\* the end (inclusive) of the line that starts at i
RECURSIVE LineEnd(_, _)
LineEnd(s, i) == IF i >= Len(s) \/ s[i] = "\n" THEN i ELSE LineEnd(s, i + 1)

\* _inlist.readlines(): the lines of the file, each with its line break
RECURSIVE readlines(_)
readlines(s) ==
    IF s = <<>> THEN <<>>
    ELSE LET n == LineEnd(s, 1)
         IN  <<SubSeq(s, 1, n)>> \o readlines(SubSeq(s, n + 1, Len(s)))

\* sep.join(lines)
RECURSIVE join(_, _)
join(sep, lines) ==
    IF lines = <<>> THEN <<>>
    ELSE IF Len(lines) = 1 THEN lines[1]
    ELSE lines[1] \o sep \o join(sep, Tail(lines))

\* a variant that hands the lines to the lexer as they are (''.join)
LexerInput_as_read(text) == join(<<>>, readlines(UniversalNewlines(text)))

\* the text handed to shlex.shlex
LexerInput(text) == join(<<"\n">>, readlines(UniversalNewlines(text)))

\* instream.readline(): the text after the end of the current line
RECURSIVE SkipLine(_)
SkipLine(s) ==
    IF s = <<>> THEN <<>>
    ELSE IF Head(s) = "\n" THEN Tail(s)
    ELSE SkipLine(Tail(s))

\* a token read: tok the token (<<>>: the end of the text), rest the text
\* left, exc the exception raised
Token(tok, rest) == [tok |-> tok, rest |-> rest, exc |-> "none"]
TokenError(exc) == [tok |-> <<>>, rest |-> <<>>, exc |-> exc]

\* the word state 'a': a comment ends the line, not the word
RECURSIVE ReadWord(_, _)
ReadWord(tok, s) ==
    IF s = <<>> THEN Token(tok, <<>>)
    ELSE IF Head(s) \in whitespace THEN Token(tok, Tail(s))
    ELSE IF Head(s) \in commenters THEN ReadWord(tok, SkipLine(Tail(s)))
    ELSE IF Head(s) \in wordchars \/ Head(s) \in quotes
    THEN ReadWord(Append(tok, Head(s)), Tail(s))
    ELSE Token(tok, s)  \* pushed back: the next token

\* a quote state: up to the same quote, which is kept with the opening one
RECURSIVE ReadQuoted(_, _, _)
ReadQuoted(q, tok, s) ==
    IF s = <<>> THEN TokenError("ValueError")  \* No closing quotation
    ELSE IF Head(s) = q THEN Token(Append(tok, q), Tail(s))
    ELSE ReadQuoted(q, Append(tok, Head(s)), Tail(s))

\* _lex.get_token(): the whitespace state ' '
RECURSIVE get_token(_)
get_token(s) ==
    IF s = <<>> THEN Token(<<>>, <<>>)
    ELSE IF Head(s) \in whitespace THEN get_token(Tail(s))
    ELSE IF Head(s) \in commenters THEN get_token(SkipLine(Tail(s)))
    ELSE IF Head(s) \in wordchars THEN ReadWord(<<Head(s)>>, Tail(s))
    ELSE IF Head(s) \in quotes THEN ReadQuoted(Head(s), <<Head(s)>>, Tail(s))
    ELSE Token(<<Head(s)>>, Tail(s))

(***************************************************************************)
(* Dictionaries.                                                           *)
(***************************************************************************)
\* a variant of d[k] = v in which a key keeps its first value
Put_keep_first(d, k, v) ==
    [x \in DOMAIN d \cup {k} |-> IF x \in DOMAIN d THEN d[x] ELSE v]

\* d[k] = v
Put(d, k, v) == [x \in DOMAIN d \cup {k} |-> IF x = k THEN v ELSE d[x]]

(***************************************************************************)
(* One pass of the loop of _parse_inlist over the text s still to be read, *)
(* on the entries d: the keyword, the token taken for "=", the value.      *)
(* done: the text is exhausted; exc: the exception the pass raised.        *)
(***************************************************************************)
Step(done, exc, rest, dd) ==
    [done |-> done, exc |-> exc, rest |-> rest, d |-> dd]

\* dictionary_inlist[_keyword] = self._typer(_token)
StoreValue(s, d, _keyword, _token, _value) ==
    IF _value.exc # "none" THEN Step(FALSE, _value.exc, s, d)
    ELSE Step(FALSE, "none", _token.rest, Put(d, _keyword.tok, _value.val))

\* a variant of the pass that takes the end of the text in place of a value
\* as the end of the loop
ReadValue_stop_at_end(s, d, _keyword, _token) ==
    IF _token.exc # "none" THEN Step(FALSE, _token.exc, s, d)
    ELSE IF _token.tok = <<>> THEN Step(TRUE, "none", <<>>, d)
    ELSE StoreValue(s, d, _keyword, _token, _typer(_token.tok))

\* _token = _lexer.get_token()
ReadValue(s, d, _keyword, _token) ==
    IF _token.exc # "none" THEN Step(FALSE, _token.exc, s, d)
    ELSE StoreValue(s, d, _keyword, _token, _typer(_token.tok))

\* _equals = _lexer.get_token()
ReadEquals(s, d, _keyword, _equals) ==
    IF _equals.exc # "none" THEN Step(FALSE, _equals.exc, s, d)
    ELSE ReadValue(s, d, _keyword, get_token(_equals.rest))

\* for _keyword in _lexer: iteration ends at the end of the text
ReadKeyword(s, d, _keyword) ==
    IF _keyword.exc # "none" THEN Step(FALSE, _keyword.exc, s, d)
    ELSE IF _keyword.tok = <<>> THEN Step(TRUE, "none", <<>>, d)
    ELSE ReadEquals(s, d, _keyword, get_token(_keyword.rest))

LoopBody(s, d) == ReadKeyword(s, d, get_token(s))

\* a variant of the handlers of _parse_inlist that also catches ValueError
ParseCaught_value_error == {"NameError", "TypeError", "ValueError"}

\* the exceptions _parse_inlist catches and logs (it then returns None)
ParseCaught == {"NameError", "TypeError"}

\* the exceptions get_inlist_values catches around the parse of the run file
RunCaught == {"NameError"}

(***************************************************************************)
(* The defaults file of a run file.                                        *)
(***************************************************************************)
\* compiled_regex_defaults.match(path), (.*)\/.*\/(.*)\..* : the positions
\* <<i, j, k>> of the two "/" and of the "." ; "." matches no line break,
\* every .* is greedy
RegexSplits(path) ==
    {ijk \in (1..Len(path)) \X (1..Len(path)) \X (1..Len(path)) :
        /\ ijk[1] < ijk[2] /\ ijk[2] < ijk[3]
        /\ path[ijk[1]] = "/" /\ path[ijk[2]] = "/" /\ path[ijk[3]] = "."
        /\ \A x \in 1..ijk[3] : path[x] # "\n"}

\* the greedy match: the first group as long as it can be, then the second .*
GreedySplit(path) ==
    CHOOSE ijk \in RegexSplits(path) :
        \A o \in RegexSplits(path) :
            \/ o[1] < ijk[1]
            \/ o[1] = ijk[1] /\ o[2] < ijk[2]
            \/ o[1] = ijk[1] /\ o[2] = ijk[2] /\ o[3] <= ijk[3]

compiled_regex_defaults(path) ==
    IF RegexSplits(path) = {}
    THEN [matched |-> FALSE, group1 |-> <<>>, group2 |-> <<>>]
    ELSE LET ijk == GreedySplit(path)
         IN  [matched |-> TRUE,
              group1 |-> Slice(path, 1, ijk[1]),
              group2 |-> Slice(path, ijk[2] + 1, ijk[3])]

\* f'{group(1)}/defaults/{group(2)}.defaults'
DefaultsPath(m) ==
    m.group1 \o <<"/", "d", "e", "f", "a", "u", "l", "t", "s", "/">>
    \o m.group2 \o <<".", "d", "e", "f", "a", "u", "l", "t", "s">>

(***************************************************************************)
(* The state.                                                              *)
(***************************************************************************)
VARIABLES
    fs,                 \* the inlist files: a function from paths to texts
    toml_fs,            \* the TOML files: a function from paths to parse trees
    inputs,             \* the paths the caller passes to InlistHandler
    toml_inputs,        \* the paths the caller passes to TomlInlistHandler
    log,                \* the paths of the loads called so far, in order
    pc,                 \* "idle", or the place of the load in progress:
                        \* "open" (_parse_inlist begins), "loop" (its loop)
    phase,              \* the file _parse_inlist reads: "defaults" or "run"
    inlist_path,        \* the argument of the load in progress (or last one)
    target,             \* the path _parse_inlist was called with
    stream,             \* the text the lexer has still to read
    dictionary_inlist,  \* the dict _parse_inlist fills: its place in heap,
                        \* 0 for None
    heap,               \* the dict objects made so far: their entries
    opened,             \* the paths handed to open() by the load in progress
    ret,                \* what the last load gave its caller
    seen,               \* for every path, what its first load gave the caller
    value_string,       \* the argument of a direct call of _typer
    typed_value         \* its result

vars == <<fs, toml_fs, inputs, toml_inputs, log, pc, phase, inlist_path,
          target, stream, dictionary_inlist, heap, opened, ret, seen,
          value_string, typed_value>>

files == <<fs, toml_fs, inputs, toml_inputs>>
frame == <<phase, target, stream, dictionary_inlist>>
typer_vars == <<value_string, typed_value>>

\* what a load gives its caller: kind "returned" (val the value, ref the
\* place of the dict in heap, 0 if it is no dict of heap) or "raised" (exc);
\* kind "none": no load has ended
Outcome(kind, exc, ref, val) == [kind |-> kind, exc |-> exc, ref |-> ref, val |-> val]
NoOutcome == Outcome("none", "none", 0, VNone)
ReturnedRef(ref, hp) ==
    Outcome("returned", "none", ref, IF ref = 0 THEN VNone ELSE VDict(hp[ref]))
RaisedToCaller(exc) == Outcome("raised", exc, 0, VNone)

\* the first outcome of every path is remembered
Remember(path, outcome) ==
    IF seen[path].kind = "none" THEN [seen EXCEPT ![path] = outcome] ELSE seen

(***************************************************************************)
(* InlistHandler.get_inlist_values.                                        *)
(***************************************************************************)
\* a variant with the default `dictionary_inlist={}`: one dict, made when
\* the method is defined, serves every call that passes none
DefaultDict_shared(hp) ==
    [ref |-> 1, heap |-> IF hp = <<>> THEN <<(<<>>)>> ELSE hp]

\* `if dictionary_inlist is None: dictionary_inlist = {}`: a new dict
DefaultDict(hp) == [ref |-> Len(hp) + 1, heap |-> Append(hp, <<>>)]

\* a variant in which the call of _get_default_inlist_values stands inside
\* the try statement, so that its NameError is caught and logged
ResolveCaught_inside_try == {"NameError"}

\* the exceptions caught around the call of _get_default_inlist_values,
\* which stands before the try statement of get_inlist_values
ResolveCaught == {}

\* what get_inlist_values does when _parse_inlist, reading the file of
\* phase ph, ends with exc ("none": it returned the dict at ref)
AfterParse(ph, exc, ref) ==
    LET \* except NameError / except TypeError: logged, None is returned
        exc1 == IF exc \in ParseCaught THEN "none" ELSE exc
        ref1 == IF exc \in ParseCaught THEN 0 ELSE ref
    IN  IF ph = "defaults"
        THEN IF exc1 = "none" THEN [to |-> "run", exc |-> "none", ref |-> ref1]
             ELSE IF exc1 \in ResolveCaught
                  THEN [to |-> "return", exc |-> "none", ref |-> 0]
             ELSE [to |-> "raise", exc |-> exc1, ref |-> 0]
        ELSE IF exc1 = "none" THEN [to |-> "return", exc |-> "none", ref |-> ref1]
             \* except NameError: logged, the method ends without a return
             ELSE IF exc1 \in RunCaught
                  THEN [to |-> "return", exc |-> "none", ref |-> 0]
             ELSE [to |-> "raise", exc |-> exc1, ref |-> 0]

\* the load in progress ends: its caller gets outcome
Complete(outcome) ==
    /\ pc' = "idle"
    /\ ret' = outcome
    /\ seen' = Remember(inlist_path, outcome)

\* _parse_inlist ended as AfterParse says, the heap being hp
Continue(a, hp) ==
    /\ heap' = hp
    /\ IF a.to = "run"
       THEN \* _parse_inlist(inlist_path, dictionary_inlist=defaults)
            /\ pc' = "open"
            /\ phase' = "run"
            /\ target' = inlist_path
            /\ dictionary_inlist' = a.ref
            /\ stream' = <<>>
            /\ UNCHANGED <<ret, seen>>
       ELSE /\ Complete(IF a.to = "return" THEN ReturnedRef(a.ref, hp)
                        ELSE RaisedToCaller(a.exc))
            /\ UNCHANGED frame

\* the call, and _get_default_inlist_values up to its call of _parse_inlist
get_inlist_values(path) ==
    /\ pc = "idle"
    /\ Len(log) < MaxCalls
    /\ log' = Append(log, path)
    /\ inlist_path' = path
    /\ opened' = <<>>
    /\ LET _defaults_matches == compiled_regex_defaults(path)
       IN  IF ~_defaults_matches.matched
           THEN \* raise NameError
                /\ IF "NameError" \in ResolveCaught
                   THEN /\ ret' = ReturnedRef(0, heap)
                        /\ seen' = Remember(path, ReturnedRef(0, heap))
                   ELSE /\ ret' = RaisedToCaller("NameError")
                        /\ seen' = Remember(path, RaisedToCaller("NameError"))
                /\ UNCHANGED <<pc, frame>>
           ELSE /\ pc' = "open"
                /\ phase' = "defaults"
                /\ target' = DefaultsPath(_defaults_matches)
                /\ dictionary_inlist' = 0
                /\ stream' = <<>>
                /\ UNCHANGED <<ret, seen>>
    /\ UNCHANGED <<files, heap, typer_vars>>

\* _parse_inlist up to its loop: the dict to fill, open(), the lexer
ParseOpen ==
    /\ pc = "open"
    /\ opened' = Append(opened, target)
    /\ LET a == IF dictionary_inlist = 0 THEN DefaultDict(heap)
                ELSE [ref |-> dictionary_inlist, heap |-> heap]
       IN  IF target \notin DOMAIN fs
           THEN Continue(AfterParse(phase, "FileNotFoundError", 0), a.heap)
           ELSE /\ pc' = "loop"
                /\ stream' = LexerInput(fs[target])
                /\ dictionary_inlist' = a.ref
                /\ heap' = a.heap
                /\ UNCHANGED <<phase, target, ret, seen>>
    /\ UNCHANGED <<files, log, inlist_path, typer_vars>>

\* the loop of _parse_inlist after a pass that ended as r, the heap being hp
AfterPass(r, hp) ==
    IF r.exc # "none"
    THEN Continue(AfterParse(phase, r.exc, 0), hp)
    ELSE IF r.done
    THEN Continue(AfterParse(phase, "none", dictionary_inlist), hp)
    ELSE /\ stream' = r.rest
         /\ heap' = hp
         /\ UNCHANGED <<pc, phase, target, dictionary_inlist, ret, seen>>

StorePass(r) == AfterPass(r, [heap EXCEPT ![dictionary_inlist] = r.d])

\* one pass of the loop of _parse_inlist, and the end of _parse_inlist
ParseLoop ==
    /\ pc = "loop"
    /\ StorePass(LoopBody(stream, heap[dictionary_inlist]))
    /\ UNCHANGED <<files, log, inlist_path, opened, typer_vars>>

(***************************************************************************)
(* TomlInlistHandler.get_inlist_values.  tomllib.load is taken as given:   *)
(* toml_fs holds the parse tree of every (valid) TOML file.                *)
(***************************************************************************)
\* _adjust_for_none(parsed_dict), as a function of the entries of the dict
RECURSIVE _adjust_for_none(_)
_adjust_for_none(parsed_dict) ==
    [key \in DOMAIN parsed_dict |->
        LET val == parsed_dict[key]
        IN  IF val = VDict(<<>>) THEN VNone
            ELSE IF val.t = "dict" THEN VDict(_adjust_for_none(val.d))
            ELSE val]

\* the whole load: _parse_toml_inlist, _adjust_for_none, return
toml_get_inlist_values(path) ==
    /\ pc = "idle"
    /\ Len(log) < MaxCalls
    /\ log' = Append(log, path)
    /\ inlist_path' = path
    /\ opened' = <<path>>
    /\ LET outcome ==
               IF path \notin DOMAIN toml_fs
               THEN RaisedToCaller("FileNotFoundError")
               ELSE Outcome("returned", "none", 0,
                            VDict(_adjust_for_none(toml_fs[path])))
       IN  /\ ret' = outcome
           /\ seen' = Remember(path, outcome)
    /\ UNCHANGED <<files, pc, frame, heap, typer_vars>>

(***************************************************************************)
(* A direct call of _typer.                                                *)
(***************************************************************************)
Pending == [rule |-> "pending", exc |-> "none", val |-> VNone]

Typer ==
    /\ typed_value = Pending
    /\ typed_value' = _typer(value_string)
    /\ UNCHANGED <<files, log, pc, frame, inlist_path, heap, opened, ret, seen,
                   value_string>>

(***************************************************************************)
(* Inputs.                                                                 *)
(***************************************************************************)
\* the sequences of at most n elements of S
RECURSIVE SeqsUpTo(_, _)
SeqsUpTo(S, n) ==
    IF n = 0 THEN {<<>>}
    ELSE LET R == SeqsUpTo(S, n - 1)
         IN  R \cup {Append(r, x) : r \in {q \in R : Len(q) = n - 1}, x \in S}

\* a file system: the paths of assign that hold a text
Absent == <<"absent">>
FileSystem(assign) ==
    [path \in {q \in DOMAIN assign : assign[q] # Absent} |-> assign[path]]

\* the run files a/b/r.in and a/c/r.in share the defaults file
RunA == <<"a", "/", "b", "/", "r", ".", "i", "n">>
RunB == <<"a", "/", "c", "/", "r", ".", "i", "n">>
DefaultsR ==
    <<"a", "/", "d", "e", "f", "a", "u", "l", "t", "s", "/", "r", ".",
      "d", "e", "f", "a", "u", "l", "t", "s">>
\* a path without two directory levels
Flat == <<"r", ".", "i", "n">>
TomlPath == <<"t", ".", "t", "o", "m", "l">>

\* a = 1 / b = 2
TextAB == <<"a", " ", "=", " ", "1", "\n", "b", " ", "=", " ", "2", "\n">>
\* b = 3 / c = 4
TextBC == <<"b", " ", "=", " ", "3", "\n", "c", " ", "=", " ", "4", "\n">>
\* b = 3 / c : the last keyword has no value
TextDangling == <<"b", " ", "=", " ", "3", "\n", "c", "\n">>
\* d = 5 % x
TextD == <<"d", " ", "=", " ", "5", " ", "%", " ", "x", "\n">>
\* c = [1 : no list, and no integer
TextBadValue == <<"c", " ", "=", " ", "[", "1", "\n">>

\* [t] / v = "3.11" / n = {}
TomlFixture ==
    (<<"t">> :> VDict((<<"v">> :> VStr(<<"3", ".", "1", "1">>))
                      @@ (<<"n">> :> VDict(<<>>))))

\* no load has been called
InitIdle ==
    /\ log = <<>>
    /\ pc = "idle"
    /\ phase = "defaults"
    /\ inlist_path = <<>>
    /\ target = <<>>
    /\ stream = <<>>
    /\ dictionary_inlist = 0
    /\ heap = <<>>
    /\ opened = <<>>
    /\ ret = NoOutcome
    /\ seen = [path \in inputs \cup toml_inputs |-> NoOutcome]

\* no direct call of _typer is pending
InitNoTyper ==
    /\ value_string = <<>>
    /\ typed_value = _typer(<<>>)

\* the loads of a caller: three inlist paths and a TOML path
Init ==
    /\ \E d \in {TextAB, TextBC, TextDangling, <<>>, Absent},
          a \in {TextAB, TextBC, TextDangling, TextBadValue, <<>>, Absent},
          b \in {TextD, TextDangling} :
          fs = FileSystem((DefaultsR :> d) @@ (RunA :> a) @@ (RunB :> b))
    /\ toml_fs = (TomlPath :> TomlFixture)
    /\ inputs = {RunA, RunB, Flat}
    /\ toml_inputs = {TomlPath}
    /\ InitIdle
    /\ InitNoTyper

Next ==
    \/ \E path \in inputs : get_inlist_values(path)
    \/ ParseOpen
    \/ ParseLoop
    \/ \E path \in toml_inputs : toml_get_inlist_values(path)

Spec == Init /\ [][Next]_vars

(***************************************************************************)
(* The parser alone: one run file, its text any sequence of at most        *)
(* MaxTextPieces pieces, beside an empty defaults file.                    *)
(***************************************************************************)
\* k = 8%7 (a line), j = 1, and the parts of further entries
TextPieces ==
    {<<"k", " ", "=", " ", "8", "%", "7", "\n">>, <<"j", " ", "=", " ", "1">>,
     <<"j">>, <<"=">>, <<" ">>, <<"\n">>, <<"%", "7">>, <<"'">>}

InitParse ==
    /\ \E text \in {Flatten(q) : q \in SeqsUpTo(TextPieces, MaxTextPieces)} :
          fs = (DefaultsR :> <<>>) @@ (RunA :> text)
    /\ toml_fs = <<>>
    /\ inputs = {RunA}
    /\ toml_inputs = {}
    /\ InitIdle
    /\ InitNoTyper

NextInlist ==
    \/ \E path \in inputs : get_inlist_values(path)
    \/ ParseOpen
    \/ ParseLoop

SpecParse == InitParse /\ [][NextInlist]_vars

(***************************************************************************)
(* The defaults resolver alone: one run-file path, any text of at most     *)
(* MaxPathLen characters of PathChars.                                     *)
(***************************************************************************)
PathChars == {"a", "/", ".", "\n"}

\* /a/a.a and its defaults file /defaults/a.defaults
RootRun == <<"/", "a", "/", "a", ".", "a">>
RootDefaults ==
    <<"/", "d", "e", "f", "a", "u", "l", "t", "s", "/", "a", ".",
      "d", "e", "f", "a", "u", "l", "t", "s">>

InitPath ==
    /\ fs = (RootDefaults :> TextAB) @@ (RootRun :> TextBC)
    /\ toml_fs = <<>>
    /\ \E path \in SeqsUpTo(PathChars, MaxPathLen) : inputs = {path}
    /\ toml_inputs = {}
    /\ InitIdle
    /\ InitNoTyper

SpecPath == InitPath /\ [][NextInlist]_vars

(***************************************************************************)
(* _typer alone: one token, any sequence of at most MaxPieces pieces.      *)
(***************************************************************************)
TokenPieces ==
    {<<"'">>, <<"\"">>, <<"[">>, <<"]">>, <<"(">>, <<")">>, <<".">>, <<"1">>,
     <<"1", "e", "1">>, <<"T", "r", "u", "e">>, <<"F", "A", "L", "S", "E">>,
     <<"N", "o", "n", "e">>}

InitTyper ==
    /\ fs = <<>>
    /\ toml_fs = <<>>
    /\ inputs = {}
    /\ toml_inputs = {}
    /\ InitIdle
    /\ value_string \in {Flatten(q) : q \in SeqsUpTo(TokenPieces, MaxPieces)}
    /\ typed_value = Pending

NextTyper == Typer

SpecTyper == InitTyper /\ [][NextTyper]_vars

(***************************************************************************)
(* The TOML loader alone: one file, its parse tree any tree of tables and  *)
(* arrays nested at most MaxTomlDepth deep.                                *)
(***************************************************************************)
\* the values of the entries: a scalar, an empty array, an empty table, and
\* the tables and one-element arrays of values one level less deep
RECURSIVE TomlValues(_)
TomlValues(depth) ==
    IF depth = 0 THEN {VInt(1), VList(<<>>), VDict(<<>>)}
    ELSE LET S == TomlValues(depth - 1)
         IN  S \cup {VDict(<<"x">> :> v) : v \in S}
               \cup {VDict((<<"x">> :> v) @@ (<<"y">> :> w)) :
                        v \in S, w \in TomlValues(0)}
               \cup {VList(<<v>>) : v \in S}

InitToml ==
    /\ fs = <<>>
    /\ \E v \in TomlValues(MaxTomlDepth), w \in TomlValues(0) :
          toml_fs = (TomlPath :> ((<<"t">> :> v) @@ (<<"u">> :> w)))
    /\ inputs = {}
    /\ toml_inputs = {TomlPath}
    /\ InitIdle
    /\ InitNoTyper

NextToml == \E path \in toml_inputs : toml_get_inlist_values(path)

SpecToml == InitToml /\ [][NextToml]_vars

(***************************************************************************)
(* _parse_inlist as a function of the text of a file: the passes of its    *)
(* loop, from the first to the one that ends the text or raises.           *)
(***************************************************************************)
RECURSIVE ParseAll(_, _)
ParseAll(s, d) ==
    LET r == LoopBody(s, d)
    IN  IF r.exc # "none" \/ r.done THEN [exc |-> r.exc, d |-> r.d]
        ELSE ParseAll(r.rest, r.d)

FileMapping(text) == ParseAll(LexerInput(text), <<>>)

\* a load of the inlist loader has ended
Loaded == pc = "idle" /\ log # <<>> /\ inlist_path \in inputs

(***************************************************************************)
(* C1.  The defaults overlay.                                              *)
(***************************************************************************)
\* C1: a load of a run file that returns, returns the mapping of the
\* defaults file overlaid by the mapping of the run file: its keys are the
\* keys of either file, a key of the run file carries the run file's value,
\* a key of the defaults file alone carries the defaults value; with the
\* same text in both files the result is the mapping of that text.
C1_DefaultsOverlay ==
    (Loaded /\ inlist_path \in {RunA, RunB} /\ ret.kind = "returned") =>
        /\ DefaultsR \in DOMAIN fs
        /\ inlist_path \in DOMAIN fs
        /\ ret.val.t = "dict"
        /\ LET defaults == FileMapping(fs[DefaultsR]).d
               run == FileMapping(fs[inlist_path]).d
           IN  /\ DOMAIN ret.val.d = DOMAIN defaults \cup DOMAIN run
               /\ \A k \in DOMAIN run : ret.val.d[k] = run[k]
               /\ \A k \in DOMAIN defaults \ DOMAIN run :
                     ret.val.d[k] = defaults[k]
               /\ fs[DefaultsR] = fs[inlist_path] => ret.val.d = run

\* defaults {a: 1, b: 2} and run file {b: 3, c: 4} gave {a: 1, b: 3, c: 4}
C1_Witness ==
    /\ Loaded
    /\ inlist_path = RunA
    /\ ret.kind = "returned"
    /\ fs[DefaultsR] = TextAB
    /\ fs[RunA] = TextBC
    /\ ret.val = VDict((<<"a">> :> VInt(1)) @@ (<<"b">> :> VInt(3))
                       @@ (<<"c">> :> VInt(4)))

(***************************************************************************)
(* C2.  No value after an error.                                           *)
(***************************************************************************)
\* the parse of the file at path hits an error: the file cannot be opened,
\* or a pass of the loop raises
ParseFails(path) ==
    path \notin DOMAIN fs \/ FileMapping(fs[path]).exc # "none"

\* C2: when the parse of the defaults file or the parse of the run file
\* hits an error, the load fails towards the caller: it returns no value,
\* neither a mapping nor None.
C2_NoValueAfterError ==
    (Loaded /\ inlist_path \in {RunA, RunB}
        /\ (ParseFails(DefaultsR) \/ ParseFails(inlist_path)))
    => ret.kind = "raised"

\* the run file b = 3 / c failed in its second entry, after b was stored
C2_Witness ==
    /\ Loaded
    /\ inlist_path = RunA
    /\ DefaultsR \in DOMAIN fs
    /\ fs[DefaultsR] = TextAB
    /\ RunA \in DOMAIN fs
    /\ fs[RunA] = TextDangling
    /\ ret = RaisedToCaller("ValueError")

(***************************************************************************)
(* C8.  No hidden state.                                                   *)
(***************************************************************************)
\* C8: whatever loads came before, a load gives its caller what the first
\* load of the same path gave (the same mapping, or the same error), and
\* no later load changes a mapping that an earlier load returned.
C8_NoHiddenState ==
    /\ (pc = "idle" /\ log # <<>>) =>
          /\ ret.kind = seen[inlist_path].kind
          /\ ret.exc = seen[inlist_path].exc
          /\ ret.val = seen[inlist_path].val
    /\ \A path \in inputs :
          seen[path].ref # 0 => VDict(heap[seen[path].ref]) = seen[path].val

\* a/c/r.in was loaded, then a/b/r.in, then a/c/r.in again, all with success
C8_Witness ==
    /\ pc = "idle"
    /\ log = <<RunB, RunA, RunB>>
    /\ seen[RunA].kind = "returned"
    /\ seen[RunA].val # seen[RunB].val
    /\ ret.kind = "returned"

(***************************************************************************)
(* C6.  A keyword without a value.                                         *)
(***************************************************************************)
\* the text s begins with a keyword, and ends before the value of that
\* keyword (with or without a token in the place of "=")
Dangling(s) ==
    LET _keyword == get_token(s)
        _equals == get_token(_keyword.rest)
        _token == get_token(_equals.rest)
    IN  /\ _keyword.exc = "none" /\ _keyword.tok # <<>>
        /\ _equals.exc = "none"
        /\ _token.exc = "none" /\ _token.tok = <<>>

\* C6: a pass of the loop over a text that ends after a keyword, before its
\* value, raises ValueError (int('') : the error of a malformed entry), the
\* error reaches the caller of the load, and the pass stores nothing.
C6_DanglingKeyword ==
    [][(pc = "loop" /\ Dangling(stream)) =>
           /\ pc' = "idle"
           /\ ret' = RaisedToCaller("ValueError")
           /\ heap' = heap]_vars

\* the run file "j =" failed
C6_Witness ==
    /\ Loaded
    /\ fs[RunA] = <<"j", "=">>
    /\ ret = RaisedToCaller("ValueError")

(***************************************************************************)
(* C7.  Comments.                                                          *)
(***************************************************************************)
\* the text from the end of its first line on (the line break included)
RECURSIVE FromLineEnd(_)
FromLineEnd(s) ==
    IF s = <<>> \/ Head(s) = "\n" THEN s ELSE FromLineEnd(Tail(s))

\* the text with its comments cut out: every "%" and what follows it on
\* its line
RECURSIVE CommentFree(_)
CommentFree(s) ==
    IF s = <<>> THEN <<>>
    ELSE IF Head(s) = "%" THEN CommentFree(FromLineEnd(s))
    ELSE <<Head(s)>> \o CommentFree(Tail(s))

\* every "%" of the text is outside quotes: no quote stands before it
CommentsOutsideQuotes(s) ==
    \A i \in 1..Len(s), j \in 1..Len(s) :
        (s[i] \in {"'", "\""} /\ s[j] = "%") => j < i

HasComment(s) == \E i \in 1..Len(s) : s[i] = "%"

\* k = 8%7 / j = 1
TextComment ==
    <<"k", " ", "=", " ", "8", "%", "7", "\n", "j", " ", "=", " ", "1">>

\* C7: the load of a run file whose "%" are all outside quotes gives what
\* the load of the same text without its comments gives: a comment is no
\* part of the value before it, nor of the first token of the line after
\* it, whatever that line begins with; so k = 8%7 / j = 1 gives
\* {k: 8, j: 1}.
C7_CommentStripping ==
    (Loaded /\ CommentsOutsideQuotes(fs[RunA])) =>
        /\ LET expected == ParseAll(CommentFree(fs[RunA]), <<>>)
           IN  IF expected.exc = "none"
               THEN ret.kind = "returned" /\ ret.val = VDict(expected.d)
               ELSE ret = RaisedToCaller(expected.exc)
        /\ fs[RunA] = TextComment =>
              ret.val = VDict((<<"k">> :> VInt(8)) @@ (<<"j">> :> VInt(1)))

\* k = 8%7 / j = 1 was loaded
C7_Witness ==
    /\ Loaded
    /\ fs[RunA] = TextComment
    /\ HasComment(fs[RunA])
    /\ ret.kind = "returned"
    /\ ret.val.d[<<"k">>] = VInt(8)

(***************************************************************************)
(* C9.  The order of the rules of _typer.                                  *)
(***************************************************************************)
\* the word occurs in the token
Has(token, word) ==
    \E i \in 1..Len(token) :
        i + Len(word) - 1 <= Len(token)
        /\ SubSeq(token, i, i + Len(word) - 1) = word

Quoted(token) == Has(token, <<"'">>) \/ Has(token, <<"\"">>)
Bracketed(token) == Has(token, <<"[">>) /\ Has(token, <<"]">>)
Parenthesised(token) == Has(token, <<"(">>) /\ Has(token, <<")">>)
Dotted(token) == Has(token, <<".">>)
BooleanText(token) ==
    \/ Has(token, <<"F", "a", "l", "s", "e">>)
    \/ Has(token, <<"F", "A", "L", "S", "E">>)
    \/ Has(token, <<"T", "r", "u", "e">>)
    \/ Has(token, <<"T", "R", "U", "E">>)
NullText(token) == Has(token, <<"N", "o", "n", "e">>)

\* digits, e or E, any number of "-", a digit: at the start of the token
Exponent(token) ==
    \E i \in 2..Len(token), j \in 2..Len(token) :
        /\ i <= j
        /\ \A x \in 1..(i - 1) : token[x] \in Digits
        /\ token[i] \in {"e", "E"}
        /\ \A x \in (i + 1)..(j - 1) : token[x] = "-"
        /\ token[j] \in Digits

\* the earliest rule, in the order of the claim, whose test the token passes
FirstRule(token) ==
    CASE Quoted(token) /\ Bracketed(token) -> "quoted_list"
      [] Quoted(token) -> "string"
      [] BooleanText(token) -> "boolean"
      [] NullText(token) -> "null"
      [] Bracketed(token) -> "list"
      [] Parenthesised(token) -> "tuple"
      [] Dotted(token) \/ Exponent(token) -> "float"
      [] OTHER -> "integer"

TyperDone == typed_value # Pending

\* C9: the branch _typer takes is the one of the earliest rule the token
\* passes, in the order quoted list, string, boolean, null, list, tuple,
\* float, integer.  So a token with a quote gives no boolean, null, float or
\* integer; a token without quotes and with boolean text gives a boolean;
\* a token without quotes, boolean text or null text and with both brackets
\* is handled by the list rule, whatever parentheses or dots it holds.
C9_RulePrecedence ==
    TyperDone =>
        /\ typed_value.rule = FirstRule(value_string)
        /\ (Quoted(value_string) /\ typed_value.exc = "none") =>
              typed_value.val.t \notin {"bool", "NoneType", "float", "int"}
        /\ (~Quoted(value_string) /\ BooleanText(value_string)) =>
              typed_value.exc = "none" /\ typed_value.val.t = "bool"
        /\ (~Quoted(value_string) /\ ~BooleanText(value_string)
               /\ ~NullText(value_string) /\ Bracketed(value_string)) =>
              typed_value.rule = "list"

\* 'True' was typed: it passes the tests for quotes and for boolean text,
\* and is a string
C9_Witness ==
    /\ TyperDone
    /\ value_string = <<"'", "T", "r", "u", "e", "'">>
    /\ typed_value.rule = "string"
    /\ typed_value.val = VStr(<<"T", "r", "u", "e">>)

(***************************************************************************)
(* C10.  The quotes of a string.                                           *)
(***************************************************************************)
\* the token is a text between two quotes of the same kind
Wrapped(token) ==
    /\ Len(token) >= 2
    /\ token[1] \in {"'", "\""}
    /\ token[Len(token)] = token[1]

\* C10: a token between two quotes of the same kind, that has not both "["
\* and "]", gives the string between these two quotes: one quote is taken
\* from each end, and every other character is kept.
C10_QuoteRoundTrip ==
    (TyperDone /\ Wrapped(value_string) /\ ~Bracketed(value_string)) =>
        /\ typed_value.exc = "none"
        /\ typed_value.val = VStr(SubSeq(value_string, 2, Len(value_string) - 1))

\* C10, for the tokens whose text between the quotes neither begins nor
\* ends with a quote: these give the string between the quotes.
C10_InnerWithoutOuterQuotes ==
    (TyperDone /\ Wrapped(value_string) /\ ~Bracketed(value_string)
        /\ (Len(value_string) > 2 =>
               /\ value_string[2] \notin {"'", "\""}
               /\ value_string[Len(value_string) - 1] \notin {"'", "\""}))
    => /\ typed_value.exc = "none"
       /\ typed_value.val = VStr(SubSeq(value_string, 2, Len(value_string) - 1))

(***************************************************************************)
(* C3.  Empty tables of a TOML file.                                       *)
(***************************************************************************)
\* no mapping of the tree v, at any depth, under tables or in arrays, has an
\* entry whose value is an empty table
RECURSIVE NoEmptyTable(_)
NoEmptyTable(v) ==
    /\ \A key \in DOMAIN v.d : v.d[key] # VDict(<<>>) /\ NoEmptyTable(v.d[key])
    /\ \A k \in 1..Len(v.items) : NoEmptyTable(v.items[k])

\* C3: the tree the TOML loader returns has no mapping, at any depth, with
\* an entry whose value is an empty table.
C3_NoEmptyTableLeft ==
    (pc = "idle" /\ log # <<>> /\ ret.kind = "returned") => NoEmptyTable(ret.val)

\* no mapping of the tree v that is reached through tables alone has an
\* entry whose value is an empty table
RECURSIVE NoEmptyTableUnderTables(_)
NoEmptyTableUnderTables(v) ==
    \A key \in DOMAIN v.d :
        v.d[key] # VDict(<<>>) /\ NoEmptyTableUnderTables(v.d[key])

\* C3, for the tables that are in no array: none of them is left with an
\* entry whose value is an empty table.
C3_NoEmptyTableUnderTables ==
    (pc = "idle" /\ log # <<>> /\ ret.kind = "returned") =>
        NoEmptyTableUnderTables(ret.val)

(***************************************************************************)
(* C4, C5.  The path of the defaults file.                                 *)
(***************************************************************************)
\* the places of the "/" of path, and of the "." of its last segment
Slashes(path) == {i \in 1..Len(path) : path[i] = "/"}
Last(S) == CHOOSE i \in S : \A j \in S : j <= i
Dots(path) == {i \in (Last(Slashes(path)) + 1)..Len(path) : path[i] = "."}

\* a path of the shape <A>/<B>/<name>.<ext>
Shaped(path) == Cardinality(Slashes(path)) >= 2 /\ Dots(path) # {}

\* <A>/defaults/<name>.defaults : <A> is what stands before the last "/"
\* but one, <name> what stands between the last "/" and the last "."
ExpectedDefaults(path) ==
    LET last == Last(Slashes(path))
        above == Last(Slashes(path) \ {last})
    IN  SubSeq(path, 1, above - 1)
        \o <<"/", "d", "e", "f", "a", "u", "l", "t", "s", "/">>
        \o SubSeq(path, last + 1, Last(Dots(path)) - 1)
        \o <<".", "d", "e", "f", "a", "u", "l", "t", "s">>

\* C4: the load of a run file at a path of the shape <A>/<B>/<name>.<ext>
\* parses the file at <A>/defaults/<name>.defaults as its defaults file.
C4_DefaultsPath ==
    (Loaded /\ Shaped(inlist_path)) =>
        opened # <<>> /\ opened[1] = ExpectedDefaults(inlist_path)

\* C4, for the paths without a line feed: each is resolved as the claim says.
C4_WithoutLineFeed ==
    (Loaded /\ Shaped(inlist_path)
        /\ \A i \in 1..Len(inlist_path) : inlist_path[i] # "\n")
    => opened # <<>> /\ opened[1] = ExpectedDefaults(inlist_path)

\* C5: the load of a run file at a path that does not match the pattern (as
\* every path with fewer than two "/") fails with NameError (the error of the naming convention), which reaches
\* the caller: no value is returned, and no file is opened.
C5_NamingConvention ==
    (Loaded /\ (\/ ~compiled_regex_defaults(inlist_path).matched
                \/ Cardinality(Slashes(inlist_path)) < 2)) =>
        ret = RaisedToCaller("NameError") /\ opened = <<>>

\* a/a.a, a path with one directory level, was loaded
C5_Witness ==
    /\ Loaded
    /\ inlist_path = <<"a", "/", "a", ".", "a">>
    /\ ret = RaisedToCaller("NameError")

(***************************************************************************)
(* C11.  The null rule.                                                    *)
(***************************************************************************)
NoneText == <<"N", "o", "n", "e">>

\* C11: a token without quotes and without boolean text is typed as null
\* only when it is exactly None; any other such token that holds None is
\* left to the list, tuple, float and integer rules.
C11_NullOnlyForNone ==
    (TyperDone /\ ~Quoted(value_string) /\ ~BooleanText(value_string)) =>
        /\ typed_value.rule = "null" => value_string = NoneText
        /\ (NullText(value_string) /\ value_string # NoneText) =>
              typed_value.rule \in {"list", "tuple", "float", "integer"}

\* C11, for the token None itself: it is typed as null.
C11_ExactNone ==
    (TyperDone /\ value_string = NoneText) =>
        typed_value = Typed("null", Returned(VNone))

=============================================================================
